---- MODULE Spec2Model ----
(***************************************************************************)
(* Verification model of the forgekit utilities:                           *)
(*   logman.py    - get_logger, collect_run_metadata                       *)
(*   garnish.py   - instrumentation wrappers, _get_scope, Timer, Profiler  *)
(*   banner.py    - Logo                                                   *)
(*   docweaver.py - docstring skeleton generator                           *)
(* Each component has its own specification over its own variables; the    *)
(* variables of the other components stay at their initial value.          *)
(***************************************************************************)
EXTENDS Integers, Sequences, FiniteSets, TLC

VARIABLES
    \* logman.get_logger: the logging module's registry of named loggers
    handlers,       \* logger name -> sequence of attached handlers
    handlers0,      \* logger name -> handlers attached before the first call
    level,          \* logger name -> level set on the logger ("NOTSET" at start)
    returned,       \* logger name -> number of get_logger calls that returned
    raised,         \* logger name -> number of get_logger calls that raised
    \* garnish.Timer / garnish.Profiler: one `with` statement at a time
    scopePc,        \* "idle" (no scope open) or "body" (inside the with block)
    ctx,            \* the context manager object of the open (or last) scope
    entries,        \* number of __enter__ calls so far
    reports,        \* number of completion reports printed so far
    scopeOut,       \* lines printed by the most recent scope
    thrown,         \* what the body of the last closed scope raised ("none")
    observed,       \* what the caller of the last closed with statement saw
    \* garnish.py wrappers: the most recent call through a wrapper
    wrapIn,         \* the call: wrapper, its settings, func, args, kwargs
    wrapOut,        \* lines the wrapper printed during the call
    wrapLog,        \* records the wrapper sent to the module logger
    wrapCalls,      \* the calls the wrapped callable received
    wrapResult,     \* how the wrapper call ended and the value it returned
    wrapScope,      \* the scope name _get_scope resolved ("" if not asked)
    \* banner.Logo
    installed,      \* the font engine's registry entry for the font "3d"
    logoIn,         \* the most recent call Logo(version, author) and its environment
    console,        \* lines that call printed on the rich console
    logoOutcome,    \* "returned", or the failure that left Logo
    \* docweaver.DocstringInjector: one walk over a syntax tree
    docPc,          \* "idle", "walking" or "done"
    docSrc,         \* the tree the walk started from
    tree,           \* the tree being transformed in place
    class_stack,    \* DocstringInjector.class_stack
    agenda,         \* pending work of the recursive visit, innermost first
    docRun,         \* number of walks started (a later one runs on the output)
    \* logman.collect_run_metadata
    metaIn,         \* the most recent call: the seed and the environment it met
    metaOut,        \* the mapping that call returned
    metaOutcome,    \* "returned", or the failure that left the call
    \* logman.get_logger called from several threads of one process
    threads,        \* thread -> where it is inside get_logger, and its locals
    raced           \* logger name -> a thread passed the line-14 test while
                    \* another one had passed it and not yet attached its sink

loggerVars == <<handlers, handlers0, level, returned, raised>>
scopeVars == <<scopePc, ctx, entries, reports, scopeOut, thrown, observed>>
wrapVars == <<wrapIn, wrapOut, wrapLog, wrapCalls, wrapResult, wrapScope>>
logoVars == <<installed, logoIn, console, logoOutcome>>
docVars == <<docPc, docSrc, tree, class_stack, agenda, docRun>>
metaVars == <<metaIn, metaOut, metaOutcome>>
raceVars == <<threads, raced>>

vars == <<loggerVars, scopeVars, wrapVars, logoVars, docVars, metaVars, raceVars>>

\* what the actions of one component leave alone
loggerFrame == <<scopeVars, wrapVars, logoVars, docVars, metaVars, raceVars>>
scopeFrame == <<loggerVars, wrapVars, logoVars, docVars, metaVars, raceVars>>
wrapFrame == <<loggerVars, scopeVars, logoVars, docVars, metaVars, raceVars>>
logoFrame == <<loggerVars, scopeVars, wrapVars, docVars, metaVars, raceVars>>
docFrame == <<loggerVars, scopeVars, wrapVars, logoVars, metaVars, raceVars>>
metaFrame == <<loggerVars, scopeVars, wrapVars, logoVars, docVars, raceVars>>
raceFrame == <<scopeVars, wrapVars, logoVars, docVars, metaVars>>

----------------------------------------------------------------------------
(* Bounds *)

MaxCalls == 3           \* get_logger calls per logger name
MaxEntries == 3         \* with-statement entries (Timer or Profiler)
MaxClock == 3           \* largest time.perf_counter() reading, in ticks
MaxPrecision == 3       \* largest Timer precision / Profiler limit drawn
MaxElapsed == 1         \* largest elapsed time / profile size of a wrapped call
MaxInt == 2             \* integer argument values are 1..MaxInt
MaxRuns == 2            \* walks of the docstring injector over one tree
MaxThreads == 2         \* threads calling get_logger concurrently

----------------------------------------------------------------------------
(* logman.py: get_logger *)

LoggerNames == {"app", "app.db"}

LOG_LEVEL == "INFO"     \* Config.LOG_LEVEL, supplied by the host project

Stamps == {"20260101_000000", "20260101_000001"}

\* a handler the host attached itself before get_logger was ever called
HostHandler == [kind |-> "StreamHandler", file |-> "", maxBytes |-> 0,
                backupCount |-> 0, level |-> "NOTSET"]

\* lines 18-29: the rotating file sink of one call
RotatingFileHandler(stamp) ==
    [kind |-> "RotatingFileHandler", file |-> "logs/" \o stamp \o ".txt",
     maxBytes |-> 5 * 1024 * 1024, backupCount |-> 5, level |-> LOG_LEVEL]

NoHandlersAlways(name) == TRUE

\* line 14: `if not logger.handlers`
NoHandlers(name) == handlers[name] = <<>>

FileSinks(hs) == Cardinality({i \in 1..Len(hs) : hs[i].kind = "RotatingFileHandler"})

\* One sequential call get_logger(name).  fsOk is whether os.makedirs and
\* opening the log file succeed; when they do not the OSError leaves the
\* function after setLevel and before addHandler.
get_logger(name, stamp, fsOk) ==
    /\ returned[name] + raised[name] < MaxCalls
    /\ IF NoHandlers(name)
       THEN /\ level' = [level EXCEPT ![name] = LOG_LEVEL]
            /\ IF fsOk
               THEN /\ handlers' = [handlers EXCEPT
                                      ![name] = Append(@, RotatingFileHandler(stamp))]
                    /\ returned' = [returned EXCEPT ![name] = @ + 1]
                    /\ UNCHANGED raised
               ELSE /\ raised' = [raised EXCEPT ![name] = @ + 1]
                    /\ UNCHANGED <<handlers, returned>>
       ELSE /\ returned' = [returned EXCEPT ![name] = @ + 1]
            /\ UNCHANGED <<handlers, level, raised>>
    /\ UNCHANGED handlers0
    /\ UNCHANGED loggerFrame

GetLogger == \E name \in LoggerNames, stamp \in Stamps, fsOk \in BOOLEAN :
                get_logger(name, stamp, fsOk)

LoggerStart ==
    /\ handlers \in [LoggerNames -> {<<>>, <<HostHandler>>}]
    /\ handlers0 = handlers
    /\ level = [n \in LoggerNames |-> "NOTSET"]
    /\ returned = [n \in LoggerNames |-> 0]
    /\ raised = [n \in LoggerNames |-> 0]

LoggerIdle ==
    /\ handlers = [n \in LoggerNames |-> <<>>]
    /\ handlers0 = handlers
    /\ level = [n \in LoggerNames |-> "NOTSET"]
    /\ returned = [n \in LoggerNames |-> 0]
    /\ raised = [n \in LoggerNames |-> 0]

NextLogger == GetLogger

\* C1: a logger that had no handlers before the first call has, once at least
\* one get_logger(name) call has returned, exactly one handler, and it is the
\* rotating file sink: the first returning call attached it and no later call
\* added another.
C1_ExactlyOneFileSink ==
    \A n \in LoggerNames :
        (handlers0[n] = <<>> /\ returned[n] >= 1)
            => (Len(handlers[n]) = 1 /\ FileSinks(handlers[n]) = 1)

C1_Witness ==
    \E n \in LoggerNames :
        /\ handlers0[n] = <<>>
        /\ returned[n] >= 2
        /\ FileSinks(handlers[n]) = 1

----------------------------------------------------------------------------
(* logman.py: get_logger called from several threads.  The interpreter may *)
(* switch threads between any two statements, so each thread advances one  *)
(* statement (or one run of statements touching only its locals) at a time.*)
(* logging.getLogger and Logger.addHandler take the logging module's lock  *)
(* and are atomic; nothing holds a lock from line 14 to line 37.           *)

Threads == 1..MaxThreads

NoHandler == [kind |-> "none", file |-> "", maxBytes |-> 0, backupCount |-> 0,
              level |-> "NOTSET"]

IdleThread == [pc |-> "idle", name |-> "", file_handler |-> NoHandler]

\* thread t is past the test of line 14 and has not reached line 40: it is
\* going to attach a sink to logger n (or fail while building it)
InWindow(t, n) ==
    /\ threads[t].name = n
    /\ threads[t].pc \in {"line15", "line18", "line37"}

InFlight(n) == Cardinality({t \in Threads : threads[t].pc # "idle"
                                            /\ threads[t].name = n})

\* lines 12-13: the call, and logging.getLogger(name), which returns the one
\* logger object registered under that name to every thread
ThreadCall(t) ==
    \E name \in LoggerNames :
        /\ threads[t].pc = "idle"
        /\ returned[name] + raised[name] + InFlight(name) < MaxCalls
        /\ threads' = [threads EXCEPT ![t] = [pc |-> "line14", name |-> name,
                                              file_handler |-> NoHandler]]
        /\ UNCHANGED <<loggerVars, raced>>
        /\ UNCHANGED raceFrame

\* line 14: `if not logger.handlers`
ThreadCheck(t) ==
    LET name == threads[t].name IN
    /\ threads[t].pc = "line14"
    /\ IF NoHandlers(name)
       THEN /\ threads' = [threads EXCEPT ![t].pc = "line15"]
            /\ raced' = [raced EXCEPT ![name] =
                            @ \/ \E u \in Threads \ {t} : InWindow(u, name)]
       ELSE /\ threads' = [threads EXCEPT ![t].pc = "line40"]
            /\ UNCHANGED raced
    /\ UNCHANGED loggerVars
    /\ UNCHANGED raceFrame

\* line 15: logger.setLevel(Config.LOG_LEVEL)
ThreadSetLevel(t) ==
    /\ threads[t].pc = "line15"
    /\ level' = [level EXCEPT ![threads[t].name] = LOG_LEVEL]
    /\ threads' = [threads EXCEPT ![t].pc = "line18"]
    /\ UNCHANGED <<handlers, handlers0, returned, raised, raced>>
    /\ UNCHANGED raceFrame

\* lines 18-34: the log folder, the file name from the clock, the handler
\* objects.  When os.makedirs or opening the file fails the OSError leaves
\* get_logger here.
ThreadBuild(t) ==
    \E stamp \in Stamps, fsOk \in BOOLEAN :
        /\ threads[t].pc = "line18"
        /\ IF fsOk
           THEN /\ threads' = [threads EXCEPT
                                 ![t].pc = "line37",
                                 ![t].file_handler = RotatingFileHandler(stamp)]
                /\ UNCHANGED raised
           ELSE /\ threads' = [threads EXCEPT ![t] = IdleThread]
                /\ raised' = [raised EXCEPT ![threads[t].name] = @ + 1]
        /\ UNCHANGED <<handlers, handlers0, level, returned, raced>>
        /\ UNCHANGED raceFrame

\* line 37: logger.addHandler(file_handler).  addHandler skips a handler
\* object that is already in the list; the object built by this call is new,
\* so it is always appended, whatever another thread attached meanwhile.
ThreadAttach(t) ==
    /\ threads[t].pc = "line37"
    /\ handlers' = [handlers EXCEPT
                      ![threads[t].name] = Append(@, threads[t].file_handler)]
    /\ threads' = [threads EXCEPT ![t].pc = "line40"]
    /\ UNCHANGED <<handlers0, level, returned, raised, raced>>
    /\ UNCHANGED raceFrame

\* line 40: return logger
ThreadReturn(t) ==
    /\ threads[t].pc = "line40"
    /\ returned' = [returned EXCEPT ![threads[t].name] = @ + 1]
    /\ threads' = [threads EXCEPT ![t] = IdleThread]
    /\ UNCHANGED <<handlers, handlers0, level, raised, raced>>
    /\ UNCHANGED raceFrame

RaceIdle ==
    /\ threads = [t \in Threads |-> IdleThread]
    /\ raced = [n \in LoggerNames |-> FALSE]

NextRace ==
    \E t \in Threads :
        \/ ThreadCall(t)
        \/ ThreadCheck(t)
        \/ ThreadSetLevel(t)
        \/ ThreadBuild(t)
        \/ ThreadAttach(t)
        \/ ThreadReturn(t)

\* C11: get_logger holds no lock between the no-handlers test and the
\* attachment.  As long as no thread has passed the test for a logger while
\* another thread was between its own passed test and its attachment, the
\* logger has at most one file sink, and exactly one handler once a call
\* has returned; a logger with two or more file sinks is one on which two
\* calls both passed the test before either attached.  (That such a state is
\* reached by two concurrent first calls is C11_Witness.)
C11_DuplicateSinkOnlyByRace ==
    \A n \in LoggerNames :
        /\ FileSinks(handlers[n]) >= 2 => raced[n]
        /\ (~raced[n] /\ returned[n] >= 1)
              => (Len(handlers[n]) = 1 /\ FileSinks(handlers[n]) = 1)

\* two first calls for one name have both returned and left two file sinks
C11_Witness ==
    \E n \in LoggerNames :
        /\ handlers0[n] = <<>>
        /\ raced[n]
        /\ returned[n] = 2 /\ raised[n] = 0
        /\ \A t \in Threads : threads[t].pc = "idle"
        /\ Len(handlers[n]) = 2 /\ FileSinks(handlers[n]) = 2

----------------------------------------------------------------------------
(* garnish.py: Timer and Profiler, used as `with Timer(...):` *)

Descriptions == {"Operation", "Sleep operation"}

\* failures a with-block body can raise; the last one is not an Exception
\* subclass, the with statement hands it to __exit__ like the others
BodyFailures == {"ValueError", "KeyError", "KeyboardInterrupt"}

NoScope == [kind |-> "none", description |-> "", precision |-> 0, limit |-> 0,
            start_time |-> -1, elapsed |-> -1, enabled |-> FALSE, samples |-> 0]

\* Timer.__init__ followed by Timer.__enter__ at clock reading `now`
Timer__enter__(description, precision, now) ==
    [kind |-> "Timer", description |-> description, precision |-> precision,
     limit |-> 0, start_time |-> now, elapsed |-> -1, enabled |-> FALSE,
     samples |-> 0]

\* Profiler.__init__ followed by Profiler.__enter__
Profiler__enter__(description, limit) ==
    [kind |-> "Profiler", description |-> description, precision |-> 0,
     limit |-> limit, start_time |-> -1, elapsed |-> -1, enabled |-> TRUE,
     samples |-> 0]

Min(a, b) == IF a < b THEN a ELSE b

Timer__exit__Suppressing(sc, exc, now) ==
    [scope |-> [sc EXCEPT !.elapsed = now - sc.start_time],
     out |-> <<[line |-> "took", description |-> sc.description,
                elapsed |-> now - sc.start_time, precision |-> sc.precision]>>,
     ret |-> exc # "none"]

\* Timer.__exit__(exc_type, exc_val, exc_tb): the new object state, the lines
\* printed and the value returned to the with statement
Timer__exit__(sc, exc, now) ==
    [scope |-> [sc EXCEPT !.elapsed = now - sc.start_time],
     out |-> <<[line |-> "took", description |-> sc.description,
                elapsed |-> now - sc.start_time, precision |-> sc.precision]>>,
     ret |-> FALSE]

\* Profiler.__exit__: `calls` is the number of functions the profile recorded
\* while it was enabled; print_stats(limit) prints at most `limit` rows
Profiler__exit__(sc, exc, calls) ==
    [scope |-> [sc EXCEPT !.enabled = FALSE, !.samples = calls],
     out |-> <<[line |-> "CPU Profile for", description |-> sc.description,
                elapsed |-> -1, precision |-> 0],
               [line |-> "stats", description |-> sc.description,
                elapsed |-> Min(calls, sc.limit), precision |-> 0]>>,
     ret |-> FALSE]

\* the with statement after __exit__ returned `ret`: an in-flight failure is
\* re-raised unless __exit__ returned a true value
WithOutcome(exc, ret) == IF exc # "none" /\ ~ret THEN exc ELSE "normal"

Reports(out) ==
    Cardinality({i \in 1..Len(out) : out[i].line \in {"took", "CPU Profile for"}})

TimerEnter ==
    \E d \in Descriptions, p \in 0..MaxPrecision, now \in 0..MaxClock :
        /\ scopePc = "idle"
        /\ entries < MaxEntries
        /\ ctx' = Timer__enter__(d, p, now)
        /\ scopePc' = "body"
        /\ entries' = entries + 1
        /\ scopeOut' = <<>>
        /\ UNCHANGED <<reports, thrown, observed>>
        /\ UNCHANGED scopeFrame

ProfilerEnter ==
    \E d \in Descriptions, l \in 0..MaxPrecision :
        /\ scopePc = "idle"
        /\ entries < MaxEntries
        /\ ctx' = Profiler__enter__(d, l)
        /\ scopePc' = "body"
        /\ entries' = entries + 1
        /\ scopeOut' = <<>>
        /\ UNCHANGED <<reports, thrown, observed>>
        /\ UNCHANGED scopeFrame

\* The body of the with block ends (normally, exc = "none", or by raising
\* exc) and the with statement calls __exit__.
TimerExit ==
    \E exc \in BodyFailures \cup {"none"}, now \in 0..MaxClock :
        /\ scopePc = "body"
        /\ ctx.kind = "Timer"
        /\ now >= ctx.start_time
        /\ LET r == Timer__exit__(ctx, exc, now) IN
            /\ ctx' = r.scope
            /\ scopeOut' = scopeOut \o r.out
            /\ reports' = reports + Reports(r.out)
            /\ thrown' = exc
            /\ observed' = WithOutcome(exc, r.ret)
        /\ scopePc' = "idle"
        /\ UNCHANGED entries
        /\ UNCHANGED scopeFrame

ProfilerExit ==
    \E exc \in BodyFailures \cup {"none"}, calls \in 1..MaxClock :
        /\ scopePc = "body"
        /\ ctx.kind = "Profiler"
        /\ LET r == Profiler__exit__(ctx, exc, calls) IN
            /\ ctx' = r.scope
            /\ scopeOut' = scopeOut \o r.out
            /\ reports' = reports + Reports(r.out)
            /\ thrown' = exc
            /\ observed' = WithOutcome(exc, r.ret)
        /\ scopePc' = "idle"
        /\ UNCHANGED entries
        /\ UNCHANGED scopeFrame

ScopeIdle ==
    /\ scopePc = "idle"
    /\ ctx = NoScope
    /\ entries = 0
    /\ reports = 0
    /\ scopeOut = <<>>
    /\ thrown = "none"
    /\ observed = "none"

NextScope ==
    \/ TimerEnter
    \/ ProfilerEnter
    \/ TimerExit
    \/ ProfilerExit

\* C2: every entered scope prints its completion report exactly once, when it
\* is left (none while the body runs, one per entry once closed), also when
\* the body raised, and the caller then observes exactly the failure the body
\* raised.
C2_ReportOnceAndPropagate ==
    /\ scopePc = "body" => (reports = entries - 1 /\ Reports(scopeOut) = 0)
    /\ scopePc = "idle" =>
          /\ reports = entries
          /\ entries > 0 => Reports(scopeOut) = 1
          /\ thrown # "none" => observed = thrown
          /\ (thrown = "none" /\ entries > 0) => observed = "normal"

C2_Witness ==
    /\ scopePc = "idle"
    /\ entries >= 2
    /\ thrown = "KeyError"
    /\ observed = "KeyError"
    /\ Reports(scopeOut) = 1

----------------------------------------------------------------------------
(* garnish.py: the wrapped callables and the values passed to them *)

FuncNames == {"example_function", "method"}
ClassNames == {"ExampleClass", "Helper"}

\* inspect.getmodule(func): the defining module, "None" when it is unknown
Modules == {"__main__", "None"}

FuncId(name, module) ==
    (IF name = "method" THEN 1 ELSE 2) + (IF module = "None" THEN 0 ELSE 2)

\* inspect.getfullargspec(func).args of the two example callables
ArgSpec(name) ==
    IF name = "method" THEN <<"self", "value">> ELSE <<"x", "y", "multiplier">>

\* A function object: its identity, __name__, module, declared positional
\* parameters, docstring ("" when it has none) and whether a call of it
\* raises ("none" when it returns normally).
Funcs ==
    { [id |-> FuncId(n, m), name |-> n, module |-> m, argnames |-> ArgSpec(n),
       doc |-> d, raises |-> r] :
        n \in FuncNames, m \in Modules,
        d \in {"", "Example function demonstrating the decorators."},
        r \in {"none", "ValueError"} }

\* What getattr(class_obj, func.__name__) evaluates to: an object with an
\* identity, possibly a __func__ attribute (bound methods) and possibly a
\* __wrapped__ attribute (what functools.wraps leaves on a wrapper).
Attr(id, hasFunc, funcId, wrapped) ==
    [id |-> id, has__func__ |-> hasFunc, func |-> funcId, wrapped |-> wrapped]

\* the class attribute is func itself (the class body is undecorated)
SameFunction(f) == Attr(f.id, FALSE, 0, 0)
\* the class attribute is the wrapper a decorator returned for func
DecoratedMethod(f) == Attr(f.id + 100, FALSE, 0, f.id)
\* the class attribute is classmethod(func): getattr gives a bound method
BoundMethod(f) == Attr(f.id + 200, TRUE, f.id, 0)
\* the class has an unrelated attribute of the same name
UnrelatedAttr == Attr(999, FALSE, 0, 0)

NoAttrs == [n \in {} |-> UnrelatedAttr]

\* the namespaces a class can have with respect to the name of func
NamespacesFor(f) ==
    {NoAttrs} \cup
    { [n \in {f.name} |-> a] :
        a \in {SameFunction(f), DecoratedMethod(f), BoundMethod(f), UnrelatedAttr} }

IntValue(i) == [kind |-> "int", cls |-> "int", v |-> i, attrs |-> NoAttrs]
FloatValue(i) == [kind |-> "float", cls |-> "float", v |-> i, attrs |-> NoAttrs]
Instance(c, ns) == [kind |-> "obj", cls |-> c, v |-> 0, attrs |-> ns]

InstancesFor(f) == { Instance(c, ns) : c \in ClassNames, ns \in NamespacesFor(f) }

\* positional argument tuples: none, plain values (one more than the longest
\* declared parameter list is not needed: three values exceed method's two),
\* or an instance first
ArgsFor(f) ==
    {<<>>}
    \cup { <<IntValue(i)>> : i \in 1..MaxInt }
    \cup { <<IntValue(1), IntValue(i), IntValue(2)>> : i \in 1..MaxInt }
    \cup { <<o>> : o \in InstancesFor(f) }
    \cup { <<o, IntValue(i)>> : o \in InstancesFor(f), i \in 1..MaxInt }

\* keyword arguments in call order
KwargsSet ==
    { <<>>,
      <<[key |-> "multiplier", value |-> FloatValue(2)]>>,
      <<[key |-> "value", value |-> IntValue(1)],
        [key |-> "multiplier", value |-> FloatValue(2)]>> }

\* the value the call of func on args and kwargs evaluates to
Result(f, args, kwargs) == [of |-> f.id, args |-> args, kwargs |-> kwargs]

NoValue == [of |-> 0, args |-> <<>>, kwargs |-> <<>>]

\* one call of func on args and kwargs: what the callable received and how it ended
Invoke(f, args, kwargs) ==
    [call |-> [args |-> args, kwargs |-> kwargs],
     raised |-> f.raises,
     value |-> IF f.raises = "none" THEN Result(f, args, kwargs) ELSE NoValue]

Digits == <<"0", "1", "2", "3", "4", "5", "6", "7", "8", "9">>

\* str(n) for the small numbers printed here
ToStr(n) == IF n >= 0 /\ n <= 9 THEN Digits[n + 1] ELSE "10+"

\* type(value).__name__
TypeName(v) == v.cls

\* repr(value)
Repr(v) == IF v.kind = "obj" THEN "<" \o v.cls \o " object>" ELSE ToStr(v.v)

\* one printed or logged line: fixed text, listed items, one number
Line(text, items, num) == [text |-> text, items |-> items, num |-> num]

----------------------------------------------------------------------------
(* garnish.py: _get_scope *)

\* hasattr(class_obj, func.__name__) for class_obj = args[0].__class__
ClassHasAttr(v, f) == f.name \in DOMAIN v.attrs

\* lines 199-202: class_method is func, directly or through __func__
IsSameCallable(v, f) ==
    LET class_method == v.attrs[f.name]
    IN  \/ (class_method.has__func__ /\ class_method.func = f.id)
        \/ class_method.id = f.id

\* lines 179-210
_get_scope(f, args) ==
    LET scope == IF f.module = "None" THEN "<unknown>" ELSE f.module
    IN  IF /\ Len(args) > 0
           /\ ClassHasAttr(args[1], f)
           /\ IsSameCallable(args[1], f)
        THEN scope \o "." \o args[1].cls \o "." \o f.name
        ELSE scope \o "." \o f.name

----------------------------------------------------------------------------
(* garnish.py: the wrappers.  Each operator is one call wrapper of the        *)
(* decorated callable and yields the printed lines, the logged records,    *)
(* the calls the wrapped callable received, the outcome and the value.     *)

Ended(out, logged, r, scope) ==
    [out |-> out, logged |-> logged, calls |-> <<r.call>>,
     outcome |-> IF r.raised = "none" THEN "returned" ELSE r.raised,
     ret |-> r.value, scope |-> scope]

\* zip(arg_names, args) rendered as "name: type"
ArgTypes(f, args) ==
    [i \in 1..Min(Len(f.argnames), Len(args)) |->
        f.argnames[i] \o ": " \o TypeName(args[i])]

KwargTypes(kwargs) ==
    [i \in 1..Len(kwargs) |-> kwargs[i].key \o ": " \o TypeName(kwargs[i].value)]

KwargKeys(kwargs) == [i \in 1..Len(kwargs) |-> kwargs[i].key]

\* lines 17-28
argtype_wrapper(f, args, kwargs) ==
    LET output == Line("Calling " \o f.name \o " with arguments:",
                       ArgTypes(f, args) \o
                         (IF KwargTypes(kwargs) # <<>>
                          THEN <<"keyword-arguments:">> \o KwargTypes(kwargs)
                          ELSE <<>>), -1)
        r == Invoke(f, args, kwargs)
    IN  Ended(<<output>>, <<output>>, r, "")

\* How many distinct functions the wrapped callable calls while it runs and
\* the profiler records: none, one (the file's example_function, lines
\* 275-278, calls time.sleep), or enough to pass the print_stats(10) cap.
CalleeCounts == {0, 1, 9}

\* what one call of the callable leaves in a profile: the function itself
\* and each function it calls
CallableProfile(callees) == 1 + callees

\* lines 42-56; rows is the size of the collected profile
cputime_wrapper(f, sort_by, limit, args, kwargs, rows) ==
    LET scope == _get_scope(f, args)
        head == <<Line("CPU runtime for " \o scope \o ":", <<>>, -1)>>
        r == Invoke(f, args, kwargs)
    IN  IF r.raised # "none"
        THEN Ended(head, <<>>, r, scope)
        ELSE Ended(head \o <<Line("stats", <<sort_by>>, Min(rows, limit))>>,
                   <<>>, r, scope)

\* lines 63-71
docs_wrapper(f, args, kwargs) ==
    LET scope == _get_scope(f, args)
        r == Invoke(f, args, kwargs)
    IN  Ended(<<Line("Documentation for " \o scope \o ":", <<>>, -1),
                Line(IF f.doc # "" THEN f.doc ELSE "No documentation available.",
                     <<>>, -1)>>,
              <<>>, r, scope)

timeit_wrapper_twice(f, precision, args, kwargs, elapsed) ==
    LET scope == _get_scope(f, args)
        r == Invoke(f, args, kwargs)
    IN  [Ended(<<>>, <<>>, r, scope) EXCEPT !.calls = <<r.call, r.call>>]

\* lines 84-96
timeit_wrapper(f, precision, args, kwargs, elapsed) ==
    LET scope == _get_scope(f, args)
        head == <<Line("Execution speed of " \o scope \o ":", <<>>, -1)>>
        r == Invoke(f, args, kwargs)
    IN  IF r.raised # "none"
        THEN Ended(head, <<>>, r, scope)
        ELSE Ended(head \o <<Line("took", <<ToStr(precision)>>, elapsed)>>,
                   <<Line(scope \o " took", <<ToStr(precision)>>, elapsed)>>,
                   r, scope)

\* lines 109-120
trace_wrapper(f, verbose, args, kwargs) ==
    LET scope == _get_scope(f, args)
        reprArgs == [i \in 1..Len(args) |-> Repr(args[i])]
        reprKw == [i \in 1..Len(kwargs) |->
                      kwargs[i].key \o ": " \o Repr(kwargs[i].value)]
        r == Invoke(f, args, kwargs)
    IN  Ended(IF verbose
              THEN <<Line("Calling " \o scope \o " with:", <<>>, -1),
                     Line("   args:", reprArgs, -1),
                     Line("   kwargs:", reprKw, -1)>>
              ELSE <<Line("Calling " \o scope \o " with",
                          <<ToStr(Len(args)), ToStr(Len(kwargs))>>, -1)>>,
              <<Line("Trace: " \o scope, reprArgs \o reprKw, -1)>>,
              r, scope)

Banner == "============================================================"

\* The functions the profile of lines 151-164 holds, one row each in
\* print_stats: what the call of line 157 leaves (CallableProfile),
\* Profile.disable (line 164) and, with show_time on, the print of line 161
\* and the clock read on lines 155 and 160 when the profiler records it.  The
\* header prints of lines 144-148 run before enable() and are not in the
\* profile.
ProfiledFunctions(callees, show_time, clock) ==
    CallableProfile(callees)
    + (IF show_time THEN 1 + (IF clock THEN 1 ELSE 0) ELSE 0) + 1

\* profile_all.wrapper with the closing banner gated like the opening one
profile_all_wrapper_args_only(f, show_args, show_time, show_cpu, args, kwargs, elapsed, clock, callees) ==
    LET scope == _get_scope(f, args)
        head == IF show_args
                THEN <<Line("\n" \o Banner, <<>>, -1),
                       Line("Profiling " \o scope, <<>>, -1),
                       Line("Arguments:", ArgTypes(f, args), -1)>>
                     \o (IF kwargs # <<>>
                         THEN <<Line("Keyword arguments:", KwargKeys(kwargs), -1)>>
                         ELSE <<>>)
                ELSE <<>>
        r == Invoke(f, args, kwargs)
        timing == IF show_time
                  THEN <<Line("Execution time:", <<"3">>, elapsed)>>
                  ELSE <<>>
        cpu == IF show_cpu
               THEN <<Line("\nCPU Profile (top 10):", <<>>, -1),
                      Line("stats", <<"cumulative">>,
                           Min(ProfiledFunctions(callees, show_time, clock), 10))>>
               ELSE <<>>
        tail == IF show_args
                THEN <<Line(Banner \o "\n", <<>>, -1)>>
                ELSE <<>>
    IN  IF r.raised # "none"
        THEN Ended(head, <<>>, r, scope)
        ELSE Ended(head \o timing \o cpu \o tail, <<>>, r, scope)

\* lines 138-175.  `clock` is whether time.perf_counter is a function the
\* profiler records (the built-in one is; a stand-in need not be).
profile_all_wrapper(f, show_args, show_time, show_cpu, args, kwargs, elapsed, clock, callees) ==
    LET scope == _get_scope(f, args)
        head == IF show_args
                THEN <<Line("\n" \o Banner, <<>>, -1),
                       Line("Profiling " \o scope, <<>>, -1),
                       Line("Arguments:", ArgTypes(f, args), -1)>>
                     \o (IF kwargs # <<>>
                         THEN <<Line("Keyword arguments:", KwargKeys(kwargs), -1)>>
                         ELSE <<>>)
                ELSE <<>>
        r == Invoke(f, args, kwargs)
        timing == IF show_time
                  THEN <<Line("Execution time:", <<"3">>, elapsed)>>
                  ELSE <<>>
        cpu == IF show_cpu
               THEN <<Line("\nCPU Profile (top 10):", <<>>, -1),
                      Line("stats", <<"cumulative">>,
                           Min(ProfiledFunctions(callees, show_time, clock), 10))>>
               ELSE <<>>
        tail == IF show_args \/ show_time \/ show_cpu
                THEN <<Line(Banner \o "\n", <<>>, -1)>>
                ELSE <<>>
    IN  IF r.raised # "none"
        THEN Ended(head, <<>>, r, scope)
        ELSE Ended(head \o timing \o cpu \o tail, <<>>, r, scope)

----------------------------------------------------------------------------
(* _garnish.py: the earlier versions of argtype, cputime, docs, timeit,    *)
(* trace and _get_scope.  They print only (no log records), read the clock *)
(* with time.time and take no settings.                                    *)

\* a call the wrapper left with failure exc before it reached the callable
Failed(exc) ==
    [out |-> <<>>, logged |-> <<>>, calls |-> <<>>, outcome |-> exc,
     ret |-> NoValue, scope |-> ""]

\* str(type(value)), as line 13 prints it; the example classes live in the
\* module that is run
ClassRepr(v) ==
    "<class '" \o (IF v.kind = "obj" THEN "__main__." ELSE "") \o v.cls \o "'>"

\* lines 80-93.  inspect.getmodule(f).__name__ is not guarded: for a callable
\* of unknown module it raises AttributeError.  The class part is added
\* whenever the class of the first argument has any attribute named like f.
_garnish__get_scope(f, args) ==
    IF f.module = "None"
    THEN [raised |-> "AttributeError", scope |-> ""]
    ELSE [raised |-> "none",
          scope |-> IF Len(args) > 0 /\ ClassHasAttr(args[1], f)
                    THEN f.module \o "." \o args[1].cls \o "." \o f.name
                    ELSE f.module \o "." \o f.name]

\* lines 11-18
_garnish_argtype_wrapper(f, args, kwargs) ==
    LET arg_types == [i \in 1..Min(Len(f.argnames), Len(args)) |->
                         f.argnames[i] \o ": " \o ClassRepr(args[i])]
        r == Invoke(f, args, kwargs)
    IN  Ended(<<Line("Calling " \o f.name \o " with arguments:", arg_types, -1)>>
              \o (IF KwargTypes(kwargs) # <<>>
                  THEN <<Line("keyword-arguments:", KwargTypes(kwargs), -1)>>
                  ELSE <<>>),
              <<>>, r, "")

\* lines 26-33; print_stats() prints the whole profile in standard-name order
_garnish_cputime_wrapper(f, args, kwargs, rows) ==
    LET s == _garnish__get_scope(f, args)
        head == <<Line("CPU runtime for " \o s.scope \o ":", <<>>, -1)>>
        r == Invoke(f, args, kwargs)
    IN  IF s.raised # "none" THEN Failed(s.raised)
        ELSE IF r.raised # "none" THEN Ended(head, <<>>, r, s.scope)
        ELSE Ended(head \o <<Line("stats", <<"standard name">>, rows)>>,
                   <<>>, r, s.scope)

\* lines 41-45; print(inspect.getdoc(f)) prints None for a callable without
\* a docstring
_garnish_docs_wrapper(f, args, kwargs) ==
    LET s == _garnish__get_scope(f, args)
        r == Invoke(f, args, kwargs)
    IN  IF s.raised # "none" THEN Failed(s.raised)
        ELSE Ended(<<Line("Documentation for " \o s.scope \o ":", <<>>, -1),
                     Line(IF f.doc # "" THEN f.doc ELSE "None", <<>>, -1)>>,
                   <<>>, r, s.scope)

\* lines 53-61
_garnish_timeit_wrapper(f, args, kwargs, elapsed) ==
    LET s == _garnish__get_scope(f, args)
        head == <<Line("Execution speed of " \o s.scope \o ":", <<>>, -1)>>
        r == Invoke(f, args, kwargs)
    IN  IF s.raised # "none" THEN Failed(s.raised)
        ELSE IF r.raised # "none" THEN Ended(head, <<>>, r, s.scope)
        ELSE Ended(head \o <<Line("took", <<"3">>, elapsed)>>, <<>>, r, s.scope)

\* lines 69-76
_garnish_trace_wrapper(f, args, kwargs) ==
    LET s == _garnish__get_scope(f, args)
        reprArgs == [i \in 1..Len(args) |-> Repr(args[i])]
        reprKw == [i \in 1..Len(kwargs) |->
                      kwargs[i].key \o ": " \o Repr(kwargs[i].value)]
        r == Invoke(f, args, kwargs)
    IN  IF s.raised # "none" THEN Failed(s.raised)
        ELSE Ended(<<Line("Calling " \o s.scope \o " with:", <<>>, -1),
                     Line("   args:", reprArgs, -1),
                     Line("   kwargs:", reprKw, -1)>>,
                   <<>>, r, s.scope)

----------------------------------------------------------------------------
(* garnish.py: calls through a wrapper *)

NoFunc == [id |-> 0, name |-> "", module |-> "None", argnames |-> <<>>,
           doc |-> "", raises |-> "none"]

NoCall == [wrapper |-> "none", func |-> NoFunc, args |-> <<>>, kwargs |-> <<>>,
           settings |-> <<>>]

\* the record of one call through a wrapper, kept until the caller has taken
\* its result
CallOf(wrapper, settings, f, args, kwargs) ==
    [wrapper |-> wrapper, func |-> f, args |-> args, kwargs |-> kwargs,
     settings |-> settings]

OnOff(b) == IF b THEN "on" ELSE "off"

CallArgtype ==
    /\ wrapIn = NoCall
    /\ \E f \in Funcs : \E args \in ArgsFor(f), kwargs \in KwargsSet :
          LET res == argtype_wrapper(f, args, kwargs) IN
          /\ wrapIn' = CallOf("argtype", <<>>, f, args, kwargs)
          /\ wrapOut' = res.out
          /\ wrapLog' = res.logged
          /\ wrapCalls' = res.calls
          /\ wrapResult' = [outcome |-> res.outcome, ret |-> res.ret]
          /\ wrapScope' = res.scope
    /\ UNCHANGED wrapFrame

CallCputime ==
    /\ wrapIn = NoCall
    /\ \E f \in Funcs : \E args \in ArgsFor(f), kwargs \in KwargsSet,
                        sort_by \in {"cumulative", "time"},
                        limit \in {0, 20}, callees \in CalleeCounts :
          \* profiler.runcall (line 46): the callable's share and disable()
          LET rows == CallableProfile(callees) + 1
              res == cputime_wrapper(f, sort_by, limit, args, kwargs, rows) IN
          /\ wrapIn' = CallOf("cputime", <<sort_by, ToStr(limit)>>, f, args, kwargs)
          /\ wrapOut' = res.out
          /\ wrapLog' = res.logged
          /\ wrapCalls' = res.calls
          /\ wrapResult' = [outcome |-> res.outcome, ret |-> res.ret]
          /\ wrapScope' = res.scope
    /\ UNCHANGED wrapFrame

CallDocs ==
    /\ wrapIn = NoCall
    /\ \E f \in Funcs : \E args \in ArgsFor(f), kwargs \in KwargsSet :
          LET res == docs_wrapper(f, args, kwargs) IN
          /\ wrapIn' = CallOf("docs", <<>>, f, args, kwargs)
          /\ wrapOut' = res.out
          /\ wrapLog' = res.logged
          /\ wrapCalls' = res.calls
          /\ wrapResult' = [outcome |-> res.outcome, ret |-> res.ret]
          /\ wrapScope' = res.scope
    /\ UNCHANGED wrapFrame

CallTimeit ==
    /\ wrapIn = NoCall
    /\ \E f \in Funcs : \E args \in ArgsFor(f), kwargs \in KwargsSet,
                        precision \in {0, 3}, elapsed \in 0..MaxElapsed :
          LET res == timeit_wrapper(f, precision, args, kwargs, elapsed) IN
          /\ wrapIn' = CallOf("timeit", <<ToStr(precision)>>, f, args, kwargs)
          /\ wrapOut' = res.out
          /\ wrapLog' = res.logged
          /\ wrapCalls' = res.calls
          /\ wrapResult' = [outcome |-> res.outcome, ret |-> res.ret]
          /\ wrapScope' = res.scope
    /\ UNCHANGED wrapFrame

CallTrace ==
    /\ wrapIn = NoCall
    /\ \E f \in Funcs : \E args \in ArgsFor(f), kwargs \in KwargsSet,
                        verbose \in BOOLEAN :
          LET res == trace_wrapper(f, verbose, args, kwargs) IN
          /\ wrapIn' = CallOf("trace", <<OnOff(verbose)>>, f, args, kwargs)
          /\ wrapOut' = res.out
          /\ wrapLog' = res.logged
          /\ wrapCalls' = res.calls
          /\ wrapResult' = [outcome |-> res.outcome, ret |-> res.ret]
          /\ wrapScope' = res.scope
    /\ UNCHANGED wrapFrame

CallProfileAll ==
    /\ wrapIn = NoCall
    /\ \E f \in Funcs : \E args \in ArgsFor(f), kwargs \in KwargsSet,
                        show_args \in BOOLEAN, show_time \in BOOLEAN,
                        show_cpu \in BOOLEAN, elapsed \in 0..MaxElapsed,
                        clock \in BOOLEAN, callees \in CalleeCounts :
          LET res == profile_all_wrapper(f, show_args, show_time, show_cpu,
                                         args, kwargs, elapsed, clock,
                                         callees) IN
          /\ wrapIn' = CallOf("profile_all", <<OnOff(show_args), OnOff(show_time), OnOff(show_cpu)>>, f, args, kwargs)
          /\ wrapOut' = res.out
          /\ wrapLog' = res.logged
          /\ wrapCalls' = res.calls
          /\ wrapResult' = [outcome |-> res.outcome, ret |-> res.ret]
          /\ wrapScope' = res.scope
    /\ UNCHANGED wrapFrame

Call_garnish_argtype ==
    /\ wrapIn = NoCall
    /\ \E f \in Funcs : \E args \in ArgsFor(f), kwargs \in KwargsSet :
          LET res == _garnish_argtype_wrapper(f, args, kwargs) IN
          /\ wrapIn' = CallOf("_garnish.argtype", <<>>, f, args, kwargs)
          /\ wrapOut' = res.out
          /\ wrapLog' = res.logged
          /\ wrapCalls' = res.calls
          /\ wrapResult' = [outcome |-> res.outcome, ret |-> res.ret]
          /\ wrapScope' = res.scope
    /\ UNCHANGED wrapFrame

Call_garnish_cputime ==
    /\ wrapIn = NoCall
    /\ \E f \in Funcs : \E args \in ArgsFor(f), kwargs \in KwargsSet,
                        callees \in CalleeCounts :
          LET res == _garnish_cputime_wrapper(f, args, kwargs,
                                                  CallableProfile(callees) + 1) IN
          /\ wrapIn' = CallOf("_garnish.cputime", <<>>, f, args, kwargs)
          /\ wrapOut' = res.out
          /\ wrapLog' = res.logged
          /\ wrapCalls' = res.calls
          /\ wrapResult' = [outcome |-> res.outcome, ret |-> res.ret]
          /\ wrapScope' = res.scope
    /\ UNCHANGED wrapFrame

Call_garnish_docs ==
    /\ wrapIn = NoCall
    /\ \E f \in Funcs : \E args \in ArgsFor(f), kwargs \in KwargsSet :
          LET res == _garnish_docs_wrapper(f, args, kwargs) IN
          /\ wrapIn' = CallOf("_garnish.docs", <<>>, f, args, kwargs)
          /\ wrapOut' = res.out
          /\ wrapLog' = res.logged
          /\ wrapCalls' = res.calls
          /\ wrapResult' = [outcome |-> res.outcome, ret |-> res.ret]
          /\ wrapScope' = res.scope
    /\ UNCHANGED wrapFrame

Call_garnish_timeit ==
    /\ wrapIn = NoCall
    /\ \E f \in Funcs : \E args \in ArgsFor(f), kwargs \in KwargsSet,
                        elapsed \in 0..MaxElapsed :
          LET res == _garnish_timeit_wrapper(f, args, kwargs, elapsed) IN
          /\ wrapIn' = CallOf("_garnish.timeit", <<>>, f, args, kwargs)
          /\ wrapOut' = res.out
          /\ wrapLog' = res.logged
          /\ wrapCalls' = res.calls
          /\ wrapResult' = [outcome |-> res.outcome, ret |-> res.ret]
          /\ wrapScope' = res.scope
    /\ UNCHANGED wrapFrame

Call_garnish_trace ==
    /\ wrapIn = NoCall
    /\ \E f \in Funcs : \E args \in ArgsFor(f), kwargs \in KwargsSet :
          LET res == _garnish_trace_wrapper(f, args, kwargs) IN
          /\ wrapIn' = CallOf("_garnish.trace", <<>>, f, args, kwargs)
          /\ wrapOut' = res.out
          /\ wrapLog' = res.logged
          /\ wrapCalls' = res.calls
          /\ wrapResult' = [outcome |-> res.outcome, ret |-> res.ret]
          /\ wrapScope' = res.scope
    /\ UNCHANGED wrapFrame

WrapIdle ==
    /\ wrapIn = NoCall
    /\ wrapOut = <<>>
    /\ wrapLog = <<>>
    /\ wrapCalls = <<>>
    /\ wrapResult = [outcome |-> "none", ret |-> NoValue]
    /\ wrapScope = ""

\* the caller takes the result of the call; the next call can be made
WrapDone ==
    /\ wrapIn # NoCall
    /\ wrapIn' = NoCall
    /\ wrapOut' = <<>>
    /\ wrapLog' = <<>>
    /\ wrapCalls' = <<>>
    /\ wrapResult' = [outcome |-> "none", ret |-> NoValue]
    /\ wrapScope' = ""
    /\ UNCHANGED wrapFrame

NextWrap ==
    \/ WrapDone
    \/ CallArgtype
    \/ CallCputime
    \/ CallDocs
    \/ CallTimeit
    \/ CallTrace
    \/ CallProfileAll
    \/ Call_garnish_argtype
    \/ Call_garnish_cputime
    \/ Call_garnish_docs
    \/ Call_garnish_timeit
    \/ Call_garnish_trace

\* the wrappers of garnish.py, the library the claims below are about
GarnishWrappers == {"argtype", "cputime", "docs", "timeit", "trace", "profile_all"}

\* C3: whenever a call through any wrapper of garnish.py (argtype, cputime,
\* docs, timeit, trace, profile_all with any toggles) is made on a callable
\* that returns normally, the callable was invoked exactly once, with exactly
\* the positional and keyword arguments the wrapper was called with, and the
\* wrapper returned exactly the callable's value.
C3_ForwardOnceSameResult ==
    (wrapIn.wrapper \in GarnishWrappers /\ wrapIn.func.raises = "none") =>
        /\ wrapCalls = <<[args |-> wrapIn.args, kwargs |-> wrapIn.kwargs]>>
        /\ wrapResult.outcome = "returned"
        /\ wrapResult.ret = Result(wrapIn.func, wrapIn.args, wrapIn.kwargs)

C3_Witness ==
    /\ wrapIn.wrapper = "profile_all"
    /\ wrapIn.settings = <<"off", "off", "on">>
    /\ wrapIn.func.raises = "none"
    /\ Len(wrapIn.args) = 2
    /\ Len(wrapIn.kwargs) = 2
    /\ wrapResult.outcome = "returned"
    /\ Len(wrapCalls) = 1

\* C7: the scope resolved in a call with no positional arguments of a free
\* function f of module M is "M.f", and the scope resolved when a method m of
\* class C of module M, decorated in the class body, is called on an instance
\* of C is "M.C.m".
C7_ScopeOfFunctionAndMethod ==
    (wrapIn.wrapper \in GarnishWrappers \ {"argtype"} /\ wrapIn.func.module # "None") =>
        /\ wrapIn.args = <<>> =>
              wrapScope = wrapIn.func.module \o "." \o wrapIn.func.name
        /\ ( /\ wrapIn.args # <<>>
             /\ wrapIn.func.name \in DOMAIN wrapIn.args[1].attrs
             /\ wrapIn.args[1].attrs[wrapIn.func.name] = DecoratedMethod(wrapIn.func) )
              => wrapScope = wrapIn.func.module \o "." \o wrapIn.args[1].cls
                                \o "." \o wrapIn.func.name

\* what the last call printed, as seen by a reader of the console
OpeningBanners ==
    Cardinality({i \in 1..Len(wrapOut) : wrapOut[i].text = "\n" \o Banner})
ClosingBanners ==
    Cardinality({i \in 1..Len(wrapOut) : wrapOut[i].text = Banner \o "\n"})
ShowArgs == wrapIn.settings[1] = "on"
ShowTime == wrapIn.settings[2] = "on"
ShowCpu == wrapIn.settings[3] = "on"

\* C12 as stated: in every call of the profile_all wrapper the opening banner
\* line is printed iff show_args is on, the closing banner line is printed iff
\* at least one of show_args, show_time, show_cpu is on, and with all three
\* off the callable is still invoked and nothing is printed.
C12_BannerGating ==
    wrapIn.wrapper = "profile_all" =>
        /\ OpeningBanners = (IF ShowArgs THEN 1 ELSE 0)
        /\ ClosingBanners = (IF ShowArgs \/ ShowTime \/ ShowCpu THEN 1 ELSE 0)
        /\ (~ShowArgs /\ ~ShowTime /\ ~ShowCpu) =>
              (Len(wrapCalls) = 1 /\ wrapOut = <<>>)

\* C12 amended: the opening banner line is printed (once) iff show_args is
\* on, in every call; the closing banner line is printed (once) iff at least
\* one of the three toggles is on AND the wrapped callable returned: when the
\* callable raises, the failure leaves the wrapper before line 172 and no
\* closing banner is printed whatever the toggles.  With all three off the
\* callable is still invoked once and nothing is printed.
C12_BannerGatingOnReturn ==
    wrapIn.wrapper = "profile_all" =>
        /\ OpeningBanners = (IF ShowArgs THEN 1 ELSE 0)
        /\ ClosingBanners =
              (IF (ShowArgs \/ ShowTime \/ ShowCpu) /\ wrapResult.outcome = "returned"
               THEN 1 ELSE 0)
        /\ wrapResult.outcome # "returned" =>
              (wrapResult.outcome = wrapIn.func.raises /\ ClosingBanners = 0)
        /\ (~ShowArgs /\ ~ShowTime /\ ~ShowCpu) =>
              (Len(wrapCalls) = 1 /\ wrapOut = <<>>)

\* a call with only the timing toggle on that returned: no opening banner, one
\* closing banner
C12_Witness ==
    /\ wrapIn.wrapper = "profile_all"
    /\ wrapIn.settings = <<"off", "on", "off">>
    /\ wrapResult.outcome = "returned"
    /\ Len(wrapCalls) = 1
    /\ OpeningBanners = 0
    /\ ClosingBanners = 1

----------------------------------------------------------------------------
(* banner.py: Logo *)

Versions == {"1.0", "2.1", ""}
Authors == {"amin", ""}

\* Config.FONT_DIR as the host project's configuration provides it: the
\* attribute is missing, it is None, or it names a directory
FontDirs == {"<missing>", "<None>", "fonts"}

\* the file <FONT_DIR>/3d.flf: absent, a loadable font, or not a font
FontFiles == {"absent", "valid", "corrupt"}

font_name == "3d"

NoLogoCall == [version |-> "", author |-> "", font_dir |-> "", font_file |-> "",
               copy_ok |-> TRUE, called |-> FALSE]

Red(text) == [style |-> "bold red", text |-> text]
Blue(text) == [style |-> "bold blue", text |-> text]

\* line 9, `font_path = Path(Config.FONT_DIR)`: the failure it raises, if any
FontPathFailure(font_dir) ==
    CASE font_dir = "<missing>" -> "AttributeError"
      [] font_dir = "<None>" -> "TypeError"
      [] OTHER -> "none"

\* lines 11-21, the body of the try statement: the registry entry afterwards,
\* the lines printed and the failure raised inside it, if any
LogoBody(version, author, font_dir, font_file, copy_ok, reg) ==
    IF reg = "none" /\ font_file = "absent"
    THEN [installed |-> reg, out |-> <<>>,
          failure |-> "Font file '" \o font_dir \o "/" \o font_name \o ".flf' not found."]
    ELSE IF reg = "none" /\ ~copy_ok
    THEN [installed |-> reg, out |-> <<>>, failure |-> "Permission denied"]
    ELSE LET reg2 == IF reg = "none" THEN font_file ELSE reg
         IN  IF reg2 = "corrupt"
             THEN [installed |-> reg2, out |-> <<>>,
                   failure |-> font_name \o " is not a valid figlet font"]
             ELSE [installed |-> reg2,
                   out |-> <<Blue("<TickerTricker in " \o font_name \o ">"),
                             Blue("AUTHOR: " \o author),
                             Blue("VERSION: " \o version \o "\n")>>,
                   failure |-> "none"]

\* lines 8-24
Logo ==
    \E version \in Versions, author \in Authors, font_dir \in FontDirs,
       font_file \in FontFiles, copy_ok \in BOOLEAN :
        /\ logoIn' = [version |-> version, author |-> author,
                      font_dir |-> font_dir, font_file |-> font_file,
                      copy_ok |-> copy_ok, called |-> TRUE]
        /\ IF FontPathFailure(font_dir) # "none"
           THEN /\ logoOutcome' = FontPathFailure(font_dir)
                /\ console' = <<>>
                /\ UNCHANGED installed
           ELSE LET b == LogoBody(version, author, font_dir, font_file,
                                  copy_ok, installed)
                IN  /\ installed' = b.installed
                    /\ console' = IF b.failure = "none"
                                  THEN b.out
                                  ELSE b.out \o <<Red("Error loading font: "
                                                        \o b.failure)>>
                    /\ logoOutcome' = "returned"
        /\ UNCHANGED logoFrame

LogoIdle ==
    /\ installed = "none"
    /\ logoIn = NoLogoCall
    /\ console = <<>>
    /\ logoOutcome = "none"

\* the font "3d" may already be registered with the font engine
LogoStart ==
    /\ installed \in {"none", "valid"}
    /\ logoIn = NoLogoCall
    /\ console = <<>>
    /\ logoOutcome = "none"

NextLogo == Logo

RedLines(out) == Cardinality({i \in 1..Len(out) : out[i].style = "bold red"})
BlueLines(out) == Cardinality({i \in 1..Len(out) : out[i].style = "bold blue"})

\* C4: every call of Logo returns normally to its caller, and it printed
\* either the three banner lines or exactly one bold-red error line.
C4_LogoNeverPropagates ==
    logoIn.called =>
        /\ logoOutcome = "returned"
        /\ \/ (RedLines(console) = 0 /\ BlueLines(console) = 3)
           \/ (RedLines(console) = 1 /\ BlueLines(console) = 0)

----------------------------------------------------------------------------
(* docweaver.py: text.  Identifiers and rendered source text are sequences  *)
(* of characters; a docstring is the sequence of its lines.                 *)

LowerCase == <<"a", "b", "c", "d", "e", "f", "g", "h", "i", "j", "k", "l", "m", "n", "o", "p", "q", "r", "s", "t", "u", "v", "w", "x", "y", "z">>
UpperCase == <<"A", "B", "C", "D", "E", "F", "G", "H", "I", "J", "K", "L", "M", "N", "O", "P", "Q", "R", "S", "T", "U", "V", "W", "X", "Y", "Z">>

RECURSIVE IndexIn(_, _)
\* position of character c in the sequence s, 0 when absent
IndexIn(c, s) ==
    IF s = <<>> THEN 0
    ELSE IF s[Len(s)] = c /\ IndexIn(c, SubSeq(s, 1, Len(s) - 1)) = 0 THEN Len(s)
    ELSE IndexIn(c, SubSeq(s, 1, Len(s) - 1))

ToUpper(c) == IF IndexIn(c, LowerCase) > 0 THEN UpperCase[IndexIn(c, LowerCase)] ELSE c
ToLower(c) == IF IndexIn(c, UpperCase) > 0 THEN LowerCase[IndexIn(c, UpperCase)] ELSE c

\* str.lower()
Lower(s) == [i \in 1..Len(s) |-> ToLower(s[i])]

\* str.replace(old, new) for single characters
Replace(s, old, new) == [i \in 1..Len(s) |-> IF s[i] = old THEN new ELSE s[i]]

\* str.capitalize(): first character upper-cased, the others lower-cased
Capitalize(s) == [i \in 1..Len(s) |-> IF i = 1 THEN ToUpper(s[i]) ELSE ToLower(s[i])]

RECURSIVE Str(_)
\* the characters as one piece of text
Str(s) == IF s = <<>> THEN "" ELSE Head(s) \o Str(Tail(s))

\* Optional[...] values: None, or one value
None == <<>>
Some(x) == <<x>>

N_self == <<"s", "e", "l", "f">>
N_cls == <<"c", "l", "s">>
N_init == <<"_", "_", "i", "n", "i", "t", "_", "_">>
N_none == <<"n", "o", "n", "e">>

----------------------------------------------------------------------------
(* docweaver.py: syntax trees *)

\* expressions (annotations and the value of an expression statement)
NoExpr == [type |-> "None", id |-> <<>>, kind |-> "", lines |-> <<>>, slice |-> <<>>]
Name(id) == [type |-> "Name", id |-> id, kind |-> "", lines |-> <<>>, slice |-> <<>>]
Subscript(id, slice) ==
    [type |-> "Subscript", id |-> id, kind |-> "", lines |-> <<>>, slice |-> slice]
ConstantNone ==
    [type |-> "Constant", id |-> <<>>, kind |-> "None", lines |-> <<>>, slice |-> <<>>]
ConstantInt ==
    [type |-> "Constant", id |-> <<"1">>, kind |-> "int", lines |-> <<>>, slice |-> <<>>]
ConstantStr(lines) ==
    [type |-> "Constant", id |-> <<>>, kind |-> "str", lines |-> lines, slice |-> <<>>]

\* ast.arg, and the value of an absent vararg / kwarg
Arg(name, annotation) == [arg |-> name, annotation |-> annotation]
NoArg == [arg |-> <<>>, annotation |-> NoExpr]

\* ast.arguments
Arguments(posonlyargs, args, vararg, kwonlyargs, kwarg) ==
    [posonlyargs |-> posonlyargs, args |-> args, vararg |-> vararg,
     kwonlyargs |-> kwonlyargs, kwarg |-> kwarg]

NoArguments == Arguments(<<>>, <<>>, NoArg, <<>>, NoArg)

\* statements
Node(type, name, args, returns, body, value) ==
    [type |-> type, name |-> name, args |-> args, returns |-> returns,
     body |-> body, value |-> value]

Pass == Node("Pass", <<>>, NoArguments, NoExpr, <<>>, NoExpr)
Expr(value) == Node("Expr", <<>>, NoArguments, NoExpr, <<>>, value)
FunctionDef(name, args, returns, body) ==
    Node("FunctionDef", name, args, returns, body, NoExpr)
AsyncFunctionDef(name, args, returns, body) ==
    Node("AsyncFunctionDef", name, args, returns, body, NoExpr)
ClassDef(name, body) == Node("ClassDef", name, NoArguments, NoExpr, body, NoExpr)
Module(body) == Node("Module", <<>>, NoArguments, NoExpr, body, NoExpr)

IsDef(node) == node.type \in {"FunctionDef", "AsyncFunctionDef", "ClassDef"}
IsFunction(node) == node.type \in {"FunctionDef", "AsyncFunctionDef"}

----------------------------------------------------------------------------
(* docweaver.py: the skeleton generators *)

\* lines 15-23, ast.unparse of an expression
ast_to_source(node) ==
    CASE node.type = "Name" -> node.id
      [] node.type = "Subscript" -> node.id \o <<"[">> \o node.slice \o <<"]">>
      [] node.type = "Constant" /\ node.kind = "None" -> <<"N", "o", "n", "e">>
      [] OTHER -> node.id

\* `ast_to_source(x.annotation) if x.annotation else None`
AnnotationOf(a) ==
    IF a.annotation # NoExpr THEN Some(ast_to_source(a.annotation)) ELSE None

Param(name, annotation) == [name |-> name, annotation |-> annotation]

ParamsOf(args) == [i \in 1..Len(args) |-> Param(args[i].arg, AnnotationOf(args[i]))]

extract_parameters_kwonly_first(func) ==
    LET args == func.args
    IN  ParamsOf(args.posonlyargs)
        \o ParamsOf(args.kwonlyargs)
        \o ParamsOf(args.args)
        \o (IF args.vararg # NoArg
            THEN <<Param(<<"*">> \o args.vararg.arg, AnnotationOf(args.vararg))>>
            ELSE <<>>)
        \o (IF args.kwarg # NoArg
            THEN <<Param(<<"*", "*">> \o args.kwarg.arg, AnnotationOf(args.kwarg))>>
            ELSE <<>>)

\* lines 25-60
extract_parameters(func) ==
    LET args == func.args
    IN  ParamsOf(args.posonlyargs)
        \o ParamsOf(args.args)
        \o (IF args.vararg # NoArg
            THEN <<Param(<<"*">> \o args.vararg.arg, AnnotationOf(args.vararg))>>
            ELSE <<>>)
        \o ParamsOf(args.kwonlyargs)
        \o (IF args.kwarg # NoArg
            THEN <<Param(<<"*", "*">> \o args.kwarg.arg, AnnotationOf(args.kwarg))>>
            ELSE <<>>)

RECURSIVE SelectSeq2(_, _, _)
\* the list comprehension of lines 90-94: params kept in order
SelectSeq2(params, is_method, i) ==
    IF i > Len(params) THEN <<>>
    ELSE (IF ~(is_method /\ params[i].name \in {N_self, N_cls})
          THEN <<params[i]>> ELSE <<>>)
         \o SelectSeq2(params, is_method, i + 1)

\* lines 90-94
doc_params(params, is_method) == SelectSeq2(params, is_method, 1)

\* lines 99-103, one line of the Args section
ArgLine(p) ==
    IF p.annotation # None /\ p.annotation[1] # <<>>
    THEN "    " \o Str(p.name) \o " (" \o Str(p.annotation[1])
            \o "): TODO: describe parameter."
    ELSE "    " \o Str(p.name) \o ": TODO: describe parameter."

\* the grave accent that encloses names in the summary line; a TLA+ string
\* cannot hold that character, an apostrophe stands for it
Quote == "'"

FunctionBoilerplate ==
    "This is an auto-generated docstring skeleton. "
    \o "Please update the description and parameter details as appropriate."

summary_always_method(name, parent_class) ==
    IF parent_class # None
    THEN "Method " \o Quote \o Str(name) \o Quote \o " of " \o Quote
             \o Str(parent_class[1]) \o Quote \o "."
    ELSE Str(Capitalize(Replace(name, "_", " "))) \o "."

\* lines 69-78
summary(name, parent_class) ==
    LET is_method == parent_class # None
        is_init == is_method /\ name = N_init
    IN  IF is_method /\ is_init
        THEN "Initialise an instance of " \o Quote \o Str(parent_class[1])
             \o Quote \o "."
        ELSE IF is_method
        THEN "Method " \o Quote \o Str(name) \o Quote \o " of " \o Quote
             \o Str(parent_class[1]) \o Quote \o "."
        ELSE Str(Capitalize(Replace(name, "_", " "))) \o "."

\* lines 62-111; the result is the sequence of lines joined by "\n"
generate_function_docstring(func, parent_class) ==
    LET params == extract_parameters(func)
        is_method == parent_class # None
        return_ann == IF func.returns # NoExpr
                      THEN Some(ast_to_source(func.returns)) ELSE None
        kept == doc_params(params, is_method)
    IN  <<summary(func.name, parent_class), "", FunctionBoilerplate>>
        \o (IF kept # <<>>
            THEN <<"", "Args:">> \o [i \in 1..Len(kept) |-> ArgLine(kept[i])]
            ELSE <<>>)
        \o (IF /\ return_ann # None
               /\ return_ann[1] # <<>>
               /\ Lower(return_ann[1]) # N_none
            THEN <<"", "Returns:",
                   "    " \o Str(return_ann[1]) \o ": TODO: describe return value.">>
            ELSE <<>>)

\* lines 113-125
generate_class_docstring(cls) ==
    <<Str(cls.name) \o " class.",
      "This is an auto-generated docstring skeleton. "
      \o "Please update the description, attributes, and examples as needed.">>

\* ast.get_docstring(node) is None
get_docstring_is_None(node) ==
    ~( /\ node.body # <<>>
       /\ node.body[1].type = "Expr"
       /\ node.body[1].value.type = "Constant"
       /\ node.body[1].value.kind = "str" )

NeedsDocstringUnlessPass(node) ==
    get_docstring_is_None(node) /\ node.body # <<>> /\ node.body # <<Pass>>

NeedsDocstringAlways(node) == node.body # <<>>

\* lines 143, 156, 167: `ast.get_docstring(node) is None and node.body`
NeedsDocstring(node) == get_docstring_is_None(node) /\ node.body # <<>>

\* lines 144-146, 157-159, 168-170: the node with the skeleton inserted
WithDocstring(node, lines) ==
    [node EXCEPT !.body = <<Expr(ConstantStr(lines))>> \o @]

----------------------------------------------------------------------------
(* docweaver.py: the trees the injector is run on *)

N_Widget == <<"W", "i", "d", "g", "e", "t">>
N_Gadget == <<"G", "a", "d", "g", "e", "t">>
N_run == <<"r", "u", "n">>
N_helper == <<"h", "e", "l", "p", "e", "r">>
N_get_X == <<"g", "e", "t", "_", "X">>
N_a == <<"a">>
N_b == <<"b">>
N_x == <<"x">>
N_k == <<"k">>
N_this == <<"t", "h", "i", "s">>
N_args == <<"a", "r", "g", "s">>
N_kwargs == <<"k", "w", "a", "r", "g", "s">>
N_int == <<"i", "n", "t">>
N_str == <<"s", "t", "r">>
N_List == <<"L", "i", "s", "t">>

\* an existing docstring, an empty one, and a statement that is not one
Doc == Expr(ConstantStr(<<"Existing.">>))
DocEmpty == Expr(ConstantStr(<<"">>))
Num == Expr(ConstantInt)

\* bodies without nested definitions; the empty statement list does not come
\* out of ast.parse, only out of a tree built by hand
LeafBodies == { <<>>, <<Pass>>, <<Doc>>, <<Doc, Pass>>, <<Num, Doc>>, <<DocEmpty>> }

SimpleArgs ==
    Arguments(<<>>, <<Arg(N_self, NoExpr), Arg(N_x, Name(N_int))>>, NoArg, <<>>, NoArg)

InnerFns == { FunctionDef(N_helper, NoArguments, NoExpr, b) : b \in LeafBodies }

InnerClasses ==
    { ClassDef(N_Gadget, b) : b \in {<<Pass>>, <<Doc>>} \cup { <<f>> : f \in InnerFns } }

MidBodies ==
    LeafBodies
    \cup { <<i>> : i \in InnerFns \cup InnerClasses }
    \cup { <<Doc, i>> : i \in InnerFns \cup InnerClasses }

MidFns ==
    { Node(t, n, SimpleArgs, NoExpr, b, NoExpr) :
        t \in {"FunctionDef", "AsyncFunctionDef"}, n \in {N_init, N_run},
        b \in MidBodies }

TopClasses ==
    { ClassDef(N_Widget, b) :
        b \in LeafBodies \cup { <<m>> : m \in MidFns } \cup { <<Doc, m>> : m \in MidFns } }

\* parameter lists of every category, with and without annotations
RichArguments ==
    { Arguments(po, ar, va, ko, kw) :
        po \in { <<>>, <<Arg(N_a, Name(N_int))>> },
        ar \in { <<>>,
                 <<Arg(N_self, NoExpr)>>,
                 <<Arg(N_self, NoExpr), Arg(N_x, Name(N_int))>>,
                 <<Arg(N_cls, NoExpr), Arg(N_b, Subscript(N_List, N_int))>>,
                 <<Arg(N_this, NoExpr), Arg(N_x, NoExpr)>>,
                 <<Arg(N_x, Name(N_str)), Arg(N_self, NoExpr)>>,
                 <<Arg(N_self, NoExpr), Arg(N_cls, NoExpr)>> },
        va \in { NoArg, Arg(N_args, NoExpr) },
        ko \in { <<>>, <<Arg(N_k, Name(N_int))>> },
        kw \in { NoArg, Arg(N_kwargs, Name(N_str)) } }

RichFns ==
    { FunctionDef(n, a, r, <<Num>>) :
        n \in {N_init, N_run, N_get_X}, a \in RichArguments,
        r \in {NoExpr, Name(N_int)} }
    \cup { FunctionDef(N_get_X, SimpleArgs, r, <<Pass>>) :
             r \in {ConstantNone, Name(<<"N", "O", "N", "E">>), Name(N_str)} }

Trees ==
    { Module(<<t>>) : t \in TopClasses \cup MidFns \cup RichFns }
    \cup { Module(<<ClassDef(N_Widget, <<f>>)>>) : f \in RichFns }
    \cup { Module(<<ClassDef(N_Widget, <<m>>), f>>) : m \in InnerFns, f \in InnerFns }
    \cup { Module(<<>>) }

----------------------------------------------------------------------------
(* docweaver.py: DocstringInjector, one step per visit method *)

RECURSIVE NodeAt(_, _)
\* the node reached from t by following the body indices of path p
NodeAt(t, p) == IF p = <<>> THEN t ELSE NodeAt(t.body[Head(p)], Tail(p))

RECURSIVE ReplaceAt(_, _, _)
\* t with the node at path p replaced by n
ReplaceAt(t, p, n) ==
    IF p = <<>> THEN n
    ELSE [t EXCEPT !.body[Head(p)] = ReplaceAt(@, Tail(p), n)]

VisitTask(p) == [op |-> "visit", path |-> p]
PopTask == [op |-> "pop", path |-> <<>>]

\* generic_visit(node): the statements of the body are visited in order
VisitsOf(p, node) == [i \in 1..Len(node.body) |-> VisitTask(p \o <<i>>)]

\* `self.class_stack[-1] if self.class_stack else None`
parent_class_of(stack) == IF stack # <<>> THEN Some(stack[Len(stack)]) ELSE None

Visiting(type) ==
    /\ docPc = "walking"
    /\ agenda # <<>>
    /\ Head(agenda).op = "visit"
    /\ NodeAt(tree, Head(agenda).path).type = type

\* process_file, lines 184-186: a fresh DocstringInjector visits the tree
StartWalk ==
    /\ docPc = "idle"
    /\ \E t \in Trees :
        /\ docSrc' = t
        /\ tree' = t
    /\ class_stack' = <<>>
    /\ agenda' = <<VisitTask(<<>>)>>
    /\ docPc' = "walking"
    /\ docRun' = 1
    /\ UNCHANGED docFrame

\* lines 138-149: push the name, insert the skeleton, start generic_visit
visit_ClassDef ==
    /\ Visiting("ClassDef")
    /\ LET p == Head(agenda).path
           node == NodeAt(tree, p)
           node2 == IF NeedsDocstring(node)
                    THEN WithDocstring(node, generate_class_docstring(node))
                    ELSE node
       IN  /\ class_stack' = Append(class_stack, node.name)
           /\ tree' = ReplaceAt(tree, p, node2)
           /\ agenda' = VisitsOf(p, node2) \o <<PopTask>> \o Tail(agenda)
    /\ UNCHANGED <<docPc, docSrc, docRun>>
    /\ UNCHANGED docFrame

\* visit_ClassDef returning without `self.class_stack.pop()`
leave_ClassDef_without_pop ==
    /\ docPc = "walking"
    /\ agenda # <<>>
    /\ Head(agenda).op = "pop"
    /\ agenda' = Tail(agenda)
    /\ UNCHANGED <<docPc, docSrc, tree, class_stack, docRun>>
    /\ UNCHANGED docFrame

\* lines 150-151: generic_visit of the class returned
leave_ClassDef ==
    /\ docPc = "walking"
    /\ agenda # <<>>
    /\ Head(agenda).op = "pop"
    /\ class_stack' = SubSeq(class_stack, 1, Len(class_stack) - 1)
    /\ agenda' = Tail(agenda)
    /\ UNCHANGED <<docPc, docSrc, tree, docRun>>
    /\ UNCHANGED docFrame

\* lines 153-162
visit_FunctionDef ==
    /\ Visiting("FunctionDef")
    /\ LET p == Head(agenda).path
           node == NodeAt(tree, p)
           parent_class == parent_class_of(class_stack)
           node2 == IF NeedsDocstring(node)
                    THEN WithDocstring(node,
                             generate_function_docstring(node, parent_class))
                    ELSE node
       IN  /\ tree' = ReplaceAt(tree, p, node2)
           /\ agenda' = VisitsOf(p, node2) \o Tail(agenda)
    /\ UNCHANGED <<docPc, docSrc, class_stack, docRun>>
    /\ UNCHANGED docFrame

\* lines 164-173
visit_AsyncFunctionDef ==
    /\ Visiting("AsyncFunctionDef")
    /\ LET p == Head(agenda).path
           node == NodeAt(tree, p)
           parent_class == parent_class_of(class_stack)
           node2 == IF NeedsDocstring(node)
                    THEN WithDocstring(node,
                             generate_function_docstring(node, parent_class))
                    ELSE node
       IN  /\ tree' = ReplaceAt(tree, p, node2)
           /\ agenda' = VisitsOf(p, node2) \o Tail(agenda)
    /\ UNCHANGED <<docPc, docSrc, class_stack, docRun>>
    /\ UNCHANGED docFrame

\* NodeTransformer.generic_visit for the module and for plain statements
generic_visit ==
    /\ docPc = "walking"
    /\ agenda # <<>>
    /\ Head(agenda).op = "visit"
    /\ ~IsDef(NodeAt(tree, Head(agenda).path))
    /\ agenda' = VisitsOf(Head(agenda).path, NodeAt(tree, Head(agenda).path))
                    \o Tail(agenda)
    /\ UNCHANGED <<docPc, docSrc, tree, class_stack, docRun>>
    /\ UNCHANGED docFrame

\* process_file, lines 186-198: visit returned, the new tree is written out
FinishWalk ==
    /\ docPc = "walking"
    /\ agenda = <<>>
    /\ docPc' = "done"
    /\ UNCHANGED <<docSrc, tree, class_stack, agenda, docRun>>
    /\ UNCHANGED docFrame

\* the injector is run once more, on the tree it produced
Rerun ==
    /\ docPc = "done"
    /\ docRun < MaxRuns
    /\ docSrc' = tree
    /\ class_stack' = <<>>
    /\ agenda' = <<VisitTask(<<>>)>>
    /\ docPc' = "walking"
    /\ docRun' = docRun + 1
    /\ UNCHANGED tree
    /\ UNCHANGED docFrame

DocIdle ==
    /\ docPc = "idle"
    /\ docSrc = Module(<<>>)
    /\ tree = Module(<<>>)
    /\ class_stack = <<>>
    /\ agenda = <<>>
    /\ docRun = 0

NextDoc ==
    \/ StartWalk
    \/ visit_ClassDef
    \/ leave_ClassDef
    \/ visit_FunctionDef
    \/ visit_AsyncFunctionDef
    \/ generic_visit
    \/ FinishWalk
    \/ Rerun

----------------------------------------------------------------------------
(* docweaver.py: relating the tree a walk started from to the tree it left *)

RECURSIVE DefsOfBody(_, _, _, _, _)
RECURSIVE DefsOf(_, _, _, _)
\* The definitions below a node in source order, each with the names of the
\* class definitions enclosing it (outermost first), whether the statement
\* directly enclosing it is a class, and its nesting depth.  Inserting a
\* docstring statement leaves this order unchanged.
DefsOf(node, chain, inClass, depth) ==
    (IF IsDef(node)
     THEN <<[node |-> node, chain |-> chain, inClass |-> inClass, depth |-> depth]>>
     ELSE <<>>)
    \o DefsOfBody(node.body,
                  IF node.type = "ClassDef" THEN Append(chain, node.name) ELSE chain,
                  node.type = "ClassDef",
                  IF IsDef(node) THEN depth + 1 ELSE depth,
                  1)

DefsOfBody(body, chain, inClass, depth, i) ==
    IF i > Len(body) THEN <<>>
    ELSE DefsOf(body[i], chain, inClass, depth)
         \o DefsOfBody(body, chain, inClass, depth, i + 1)

SrcDefs == DefsOf(docSrc, <<>>, FALSE, 0)
OutDefs == DefsOf(tree, <<>>, FALSE, 0)

\* a definition without what is nested in the definitions of its body
OwnShape(node) ==
    [node EXCEPT !.body = [i \in 1..Len(node.body) |->
                              IF IsDef(node.body[i])
                              THEN [node.body[i] EXCEPT !.body = <<>>]
                              ELSE node.body[i]]]

ClassBoilerplate ==
    "This is an auto-generated docstring skeleton. "
    \o "Please update the description, attributes, and examples as needed."

\* the statement is a docstring holding a generated skeleton
IsSkeleton(stmt) ==
    /\ stmt.type = "Expr"
    /\ stmt.value.type = "Constant"
    /\ stmt.value.kind = "str"
    /\ \E i \in 1..Len(stmt.value.lines) :
          stmt.value.lines[i] \in {FunctionBoilerplate, ClassBoilerplate}

HasSkeleton(node) == node.body # <<>> /\ IsSkeleton(node.body[1])

Documented(node) == ~get_docstring_is_None(node)

RECURSIVE LineIndex(_, _, _)
\* index of the first line equal to x at or after position i, 0 when absent
LineIndex(lines, x, i) ==
    IF i > Len(lines) THEN 0
    ELSE IF lines[i] = x THEN i
    ELSE LineIndex(lines, x, i + 1)

RECURSIVE UntilBlank(_, _)
\* the lines from position i up to the next empty line or the end
UntilBlank(lines, i) ==
    IF i > Len(lines) \/ lines[i] = "" THEN <<>>
    ELSE <<lines[i]>> \o UntilBlank(lines, i + 1)

\* the entries of the "Args:" section of a docstring, empty without section
ArgsSection(lines) ==
    IF LineIndex(lines, "Args:", 1) = 0 THEN <<>>
    ELSE UntilBlank(lines, LineIndex(lines, "Args:", 1) + 1)

\* the parameters of a function as the skeleton is to list them: position-only,
\* regular positional, variadic-positional, keyword-only, variadic-keyword
ListedParams(func) ==
    [i \in 1..Len(func.args.posonlyargs) |->
        [prefix |-> "", arg |-> func.args.posonlyargs[i]]]
    \o [i \in 1..Len(func.args.args) |-> [prefix |-> "", arg |-> func.args.args[i]]]
    \o (IF func.args.vararg = NoArg THEN <<>>
        ELSE <<[prefix |-> "*", arg |-> func.args.vararg]>>)
    \o [i \in 1..Len(func.args.kwonlyargs) |->
           [prefix |-> "", arg |-> func.args.kwonlyargs[i]]]
    \o (IF func.args.kwarg = NoArg THEN <<>>
        ELSE <<[prefix |-> "**", arg |-> func.args.kwarg]>>)

\* "name (annotation): ..." for an annotated parameter, "name: ..." otherwise
ListedLine(p) ==
    "    " \o p.prefix \o Str(p.arg.arg)
    \o (IF p.arg.annotation = NoExpr THEN ""
        ELSE " (" \o Str(ast_to_source(p.arg.annotation)) \o ")")
    \o ": TODO: describe parameter."

RECURSIVE Keep(_, _, _)
\* the parameters at the positions of `keep`, in order
Keep(ps, keep, i) ==
    IF i > Len(ps) THEN <<>>
    ELSE (IF i \in keep THEN <<ps[i]>> ELSE <<>>) \o Keep(ps, keep, i + 1)

\* receiver exclusion as the generator performs it: in a method, parameters
\* named self or cls (prefixed names never match)
NotReceiverNamed(ps) ==
    {i \in 1..Len(ps) : ~(ps[i].prefix = "" /\ ps[i].arg.arg \in {N_self, N_cls})}

ListedLines(ps) == [i \in 1..Len(ps) |-> ListedLine(ps[i])]

\* the summary line a method of class K is to get
MethodSummary(name, K) ==
    IF name = N_init
    THEN "Initialise an instance of " \o Quote \o Str(K) \o Quote \o "."
    ELSE "Method " \o Quote \o Str(name) \o Quote \o " of " \o Quote \o Str(K)
            \o Quote \o "."

\* definition k of the source tree is an undocumented method, with a
\* non-empty body, directly inside a class
IsBareMethod(k) ==
    /\ IsFunction(SrcDefs[k].node)
    /\ SrcDefs[k].inClass
    /\ ~Documented(SrcDefs[k].node)
    /\ SrcDefs[k].node.body # <<>>

SkeletonLines(k) == OutDefs[k].node.body[1].value.lines

\* C5 as stated: a definition whose body is only a placeholder statement is
\* left unmodified by the walk.
C5_PlaceholderBodyUntouched ==
    docPc = "done" =>
        \A k \in 1..Len(SrcDefs) :
            SrcDefs[k].node.body = <<Pass>> =>
                OwnShape(OutDefs[k].node) = OwnShape(SrcDefs[k].node)

\* C5 amended: only a definition with no statement at all is left unmodified;
\* a definition whose body is only a placeholder statement gets the skeleton as
\* its new first statement, followed by the placeholder.
C5_OnlyEmptyBodyUntouched ==
    docPc = "done" =>
        /\ Len(OutDefs) = Len(SrcDefs)
        /\ \A k \in 1..Len(SrcDefs) :
            /\ SrcDefs[k].node.body = <<>> => OutDefs[k].node = SrcDefs[k].node
            /\ SrcDefs[k].node.body = <<Pass>> =>
                  /\ Len(OutDefs[k].node.body) = 2
                  /\ IsSkeleton(OutDefs[k].node.body[1])
                  /\ OutDefs[k].node.body[2] = Pass

C5_Witness ==
    /\ docPc = "done"
    /\ docRun = 1
    /\ \E k \in 1..Len(SrcDefs) :
          /\ SrcDefs[k].node.type = "AsyncFunctionDef"
          /\ SrcDefs[k].node.body = <<Pass>>
          /\ HasSkeleton(OutDefs[k].node)
          /\ OutDefs[k].node.body[2] = Pass

\* C6: a definition whose first statement is a docstring keeps its own
\* statements, at any depth; a walk over a tree in which every definition is
\* documented, and a second walk over the output of a first, change nothing.
C6_DocumentedUntouched ==
    docPc = "done" =>
        /\ Len(OutDefs) = Len(SrcDefs)
        /\ \A k \in 1..Len(SrcDefs) :
              Documented(SrcDefs[k].node) =>
                  OwnShape(OutDefs[k].node) = OwnShape(SrcDefs[k].node)
        /\ (\A k \in 1..Len(SrcDefs) : Documented(SrcDefs[k].node)) => tree = docSrc
        /\ docRun >= 2 => tree = docSrc

C6_Witness ==
    /\ docPc = "done"
    /\ docRun = 2
    /\ Len(SrcDefs) = 3
    /\ \A k \in 1..Len(SrcDefs) : HasSkeleton(SrcDefs[k].node)
    /\ SrcDefs[3].depth = 2
    /\ tree = docSrc

\* C8 as stated: an undocumented method of class K gets the summary line of
\* its kind, and its Args section lists every parameter but the first.
C8_FirstParameterExcluded ==
    (docPc = "done" /\ docRun = 1) =>
        \A k \in 1..Len(SrcDefs) :
            IsBareMethod(k) =>
                LET f == SrcDefs[k].node
                    K == SrcDefs[k].chain[Len(SrcDefs[k].chain)]
                IN  /\ HasSkeleton(OutDefs[k].node)
                    /\ SkeletonLines(k)[1] = MethodSummary(f.name, K)
                    /\ ArgsSection(SkeletonLines(k))
                         = ListedLines(Keep(ListedParams(f),
                                            2..Len(ListedParams(f)), 1))

\* C8 amended: an undocumented method of class K gets the summary line of its
\* kind, and its Args section lists every parameter that is not named self or
\* cls, whatever its position.
C8_ReceiverNamesExcluded ==
    (docPc = "done" /\ docRun = 1) =>
        \A k \in 1..Len(SrcDefs) :
            IsBareMethod(k) =>
                LET f == SrcDefs[k].node
                    K == SrcDefs[k].chain[Len(SrcDefs[k].chain)]
                IN  /\ HasSkeleton(OutDefs[k].node)
                    /\ SkeletonLines(k)[1] = MethodSummary(f.name, K)
                    /\ ArgsSection(SkeletonLines(k))
                         = ListedLines(Keep(ListedParams(f),
                                            NotReceiverNamed(ListedParams(f)), 1))

C8_Witness ==
    /\ docPc = "done"
    /\ docRun = 1
    /\ \E k \in 1..Len(SrcDefs) :
          /\ IsBareMethod(k)
          /\ SrcDefs[k].node.name = N_init
          /\ SrcDefs[k].chain = <<N_Widget>>
          /\ Len(SrcDefs[k].node.args.args) = 2
          /\ SrcDefs[k].node.args.args[2].arg = N_self
          /\ Len(ArgsSection(SkeletonLines(k))) = 3

\* C9: the skeleton of an undocumented function has an "Args:" section exactly
\* when a parameter remains after receiver exclusion, and the section lists the
\* remaining parameters once each, in the order position-only, positional,
\* *variadic, keyword-only, **variadic, with the annotation in parentheses
\* when there is one.
C9_ArgsSectionInOrder ==
    (docPc = "done" /\ docRun = 1) =>
        \A k \in 1..Len(SrcDefs) :
            ( /\ IsFunction(SrcDefs[k].node)
              /\ ~Documented(SrcDefs[k].node)
              /\ SrcDefs[k].node.body # <<>> ) =>
                LET f == SrcDefs[k].node
                    all == ListedParams(f)
                    remaining == IF SrcDefs[k].chain # <<>>
                                 THEN Keep(all, NotReceiverNamed(all), 1)
                                 ELSE all
                IN  /\ HasSkeleton(OutDefs[k].node)
                    /\ (LineIndex(SkeletonLines(k), "Args:", 1) > 0)
                          <=> (remaining # <<>>)
                    /\ ArgsSection(SkeletonLines(k)) = ListedLines(remaining)

C9_Witness ==
    /\ docPc = "done"
    /\ docRun = 1
    /\ \E k \in 1..Len(SrcDefs) :
          LET f == SrcDefs[k].node IN
          /\ IsFunction(f)
          /\ Len(f.args.posonlyargs) = 1
          /\ Len(f.args.args) = 2
          /\ f.args.vararg # NoArg
          /\ Len(f.args.kwonlyargs) = 1
          /\ f.args.kwarg # NoArg
          /\ HasSkeleton(OutDefs[k].node)
          /\ Len(ArgsSection(SkeletonLines(k))) = 6

RECURSIVE EnclosingClasses(_, _)
\* the names of the class definitions that enclose the node at path p of t,
\* outermost first (the node itself is not counted)
EnclosingClasses(t, p) ==
    IF p = <<>> THEN <<>>
    ELSE (IF t.type = "ClassDef" THEN <<t.name>> ELSE <<>>)
         \o EnclosingClasses(t.body[Head(p)], Tail(p))

PendingPops == Cardinality({i \in 1..Len(agenda) : agenda[i].op = "pop"})

\* C13: during a walk, whenever a node is about to be visited the class stack
\* is the chain of class definitions enclosing that node, outermost first
\* (empty for a node no class encloses); the parent_class a function
\* definition is visited with is the name of its innermost enclosing class,
\* absent when there is none; every name on the stack has its pop still
\* pending, and nothing else does; and the stack is empty when the walk has
\* ended.
C13_ClassStackIsEnclosingChain ==
    /\ (docPc = "walking" /\ agenda # <<>> /\ Head(agenda).op = "visit") =>
          LET p == Head(agenda).path
              chain == EnclosingClasses(tree, p)
          IN  /\ class_stack = chain
              /\ IsFunction(NodeAt(tree, p)) =>
                    parent_class_of(class_stack) =
                        (IF chain = <<>> THEN None ELSE Some(chain[Len(chain)]))
    /\ docPc = "walking" => Len(class_stack) = PendingPops
    /\ (docPc = "walking" /\ agenda # <<>> /\ Head(agenda).op = "pop") =>
          class_stack # <<>>
    /\ (docPc = "done" \/ (docPc = "walking" /\ agenda = <<>>)) =>
          class_stack = <<>>

\* a top-level function that follows a class definition is about to be
\* visited: the class was pushed, its body walked, and it was popped again
C13_Witness ==
    /\ docPc = "walking"
    /\ agenda # <<>>
    /\ Head(agenda) = VisitTask(<<2>>)
    /\ tree.body[1].type = "ClassDef"
    /\ HasSkeleton(tree.body[1])
    /\ IsFunction(tree.body[2])
    /\ class_stack = <<>>

----------------------------------------------------------------------------
(* logman.py: collect_run_metadata *)

Seeds == {-1, 0, 7, 42}

\* how `git rev-parse HEAD` ends: its output, or the failure check_output
\* raises (not a repository, git not installed, not executable)
GitFailures == {"CalledProcessError", "FileNotFoundError", "PermissionError"}
GitRuns ==
    { [failure |-> f, text |-> "", trailing |-> ""] : f \in GitFailures }
    \cup { [failure |-> "none", text |-> "3f2a9c1", trailing |-> "\n"] }

\* how `import tensorflow as tf; tf.__version__` ends
TfFailures == {"ImportError", "AttributeError", "RuntimeError"}
TfVersions == {"2.15.0"}

Hosts == {"localhost", "node-7"}
UtcNow == {"2026-01-01T00:00:00+00:00", "2026-01-01T00:00:01+00:00"}
PythonVersion == "3.11.6"

\* how `import numpy as np; np.__version__` on lines 54 and 61 ends: the
\* version, or the failure of an import that no try statement encloses
NumpyFailures == {"ModuleNotFoundError"}
NumpyVersion == "1.26.0"

\* str.strip() of the tool's output
Strip(raw) == raw.text

git_sha_or_empty(git) == IF git.failure # "none" THEN "" ELSE Strip(git)

\* lines 45-48
git_sha_of(git) == IF git.failure # "none" THEN "unknown" ELSE Strip(git)

\* lines 49-53
tf_ver_of(tf) == IF tf \in TfFailures THEN "not-imported" ELSE tf

NoMeta == [seed |-> 0, git_sha |-> "", host |-> "", python |-> "",
           tensorflow |-> "", numpy |-> "", started_at |-> ""]

NoMetaCall == [seed |-> 0, git |-> "", tf |-> "", np |-> "", host |-> "",
               now |-> "", called |-> FALSE]

\* lines 43-63.  The two guarded lookups run first; the numpy import of line
\* 54 follows them outside any try, so its failure leaves the call and no
\* mapping is returned.
collect_run_metadata ==
    \E seed \in Seeds, git \in GitRuns,
       tf \in TfFailures \cup TfVersions,
       np \in NumpyFailures \cup {NumpyVersion},
       host \in Hosts, now \in UtcNow :
        /\ metaIn' = [seed |-> seed,
                      git |-> git.failure,
                      tf |-> tf, np |-> np, host |-> host, now |-> now,
                      called |-> TRUE]
        /\ IF np \in NumpyFailures
           THEN /\ metaOut' = NoMeta
                /\ metaOutcome' = np
           ELSE /\ metaOut' = [seed |-> seed,
                               git_sha |-> git_sha_of(git),
                               host |-> host,
                               python |-> PythonVersion,
                               tensorflow |-> tf_ver_of(tf),
                               numpy |-> np,
                               started_at |-> now]
                /\ metaOutcome' = "returned"
        /\ UNCHANGED metaFrame

MetaIdle ==
    /\ metaIn = NoMetaCall
    /\ metaOut = NoMeta
    /\ metaOutcome = "none"

NextMeta == collect_run_metadata

\* C10 as stated: whenever the revision lookup failed the call still returned,
\* with git_sha "unknown", the seed it was given and host, python, tensorflow,
\* numpy and started_at all present; and a framework that could not be loaded
\* gave tensorflow "not-imported" in a call that returned.
C10_MetadataFallbacks ==
    metaIn.called =>
        /\ metaIn.git \in GitFailures =>
              /\ metaOutcome = "returned"
              /\ metaOut.git_sha = "unknown"
              /\ metaOut.seed = metaIn.seed
              /\ DOMAIN metaOut = {"seed", "git_sha", "host", "python",
                                   "tensorflow", "numpy", "started_at"}
              /\ metaOut.host = metaIn.host
              /\ metaOut.started_at = metaIn.now
              /\ \A key \in {"host", "python", "tensorflow", "numpy", "started_at"} :
                    metaOut[key] # ""
        /\ metaIn.tf \in TfFailures =>
              /\ metaOutcome = "returned"
              /\ metaOut.tensorflow = "not-imported"

\* C10 amended: provided the numeric-array library can be imported, a failed
\* revision lookup still lets the call return, with git_sha "unknown", the
\* seed it was given and every other key populated, and a framework that
\* cannot be loaded gives tensorflow "not-imported" in a call that returns.
\* When the library cannot be imported the call raises that import's failure
\* and returns nothing, whether or not the two guarded lookups fell back.
C10_MetadataFallbacksGivenNumpy ==
    metaIn.called =>
        /\ metaIn.np \notin NumpyFailures =>
              /\ metaOutcome = "returned"
              /\ metaOut.seed = metaIn.seed
              /\ metaOut.numpy = metaIn.np
              /\ metaIn.git \in GitFailures =>
                    /\ metaOut.git_sha = "unknown"
                    /\ DOMAIN metaOut = {"seed", "git_sha", "host", "python",
                                         "tensorflow", "numpy", "started_at"}
                    /\ metaOut.host = metaIn.host
                    /\ metaOut.started_at = metaIn.now
                    /\ \A key \in {"host", "python", "tensorflow", "numpy",
                                    "started_at"} : metaOut[key] # ""
              /\ metaIn.tf \in TfFailures => metaOut.tensorflow = "not-imported"
        /\ metaIn.np \in NumpyFailures =>
              /\ metaOutcome = metaIn.np
              /\ metaOut = NoMeta

C10_Witness ==
    /\ metaIn.called
    /\ metaIn.seed = 7
    /\ metaIn.git = "FileNotFoundError"
    /\ metaIn.tf = "ImportError"
    /\ metaIn.np = NumpyVersion
    /\ metaOutcome = "returned"
    /\ metaOut.git_sha = "unknown"
    /\ metaOut.tensorflow = "not-imported"

----------------------------------------------------------------------------
(* Specifications *)

InitLogger == LoggerStart /\ ScopeIdle /\ WrapIdle /\ LogoIdle /\ DocIdle /\ MetaIdle /\ RaceIdle

SpecLogger == InitLogger /\ [][NextLogger]_vars

InitScope == LoggerIdle /\ ScopeIdle /\ WrapIdle /\ LogoIdle /\ DocIdle /\ MetaIdle /\ RaceIdle

SpecScope == InitScope /\ [][NextScope]_vars

InitWrap == LoggerIdle /\ ScopeIdle /\ WrapIdle /\ LogoIdle /\ DocIdle /\ MetaIdle /\ RaceIdle

SpecWrap == InitWrap /\ [][NextWrap]_vars

InitLogo == LoggerIdle /\ ScopeIdle /\ WrapIdle /\ LogoStart /\ DocIdle /\ MetaIdle /\ RaceIdle

SpecLogo == InitLogo /\ [][NextLogo]_vars

InitDoc == LoggerIdle /\ ScopeIdle /\ WrapIdle /\ LogoIdle /\ DocIdle /\ MetaIdle /\ RaceIdle

SpecDoc == InitDoc /\ [][NextDoc]_vars

InitMeta == LoggerIdle /\ ScopeIdle /\ WrapIdle /\ LogoIdle /\ DocIdle /\ MetaIdle /\ RaceIdle

SpecMeta == InitMeta /\ [][NextMeta]_vars

InitRace == LoggerIdle /\ ScopeIdle /\ WrapIdle /\ LogoIdle /\ DocIdle /\ MetaIdle /\ RaceIdle

SpecRace == InitRace /\ [][NextRace]_vars

====
